---------------------------- MODULE Spec2Model ----------------------------
(***************************************************************************)
(* Model of the Reflex DAC example sketch                                  *)
(* (src/ReflexDACExample_4_1V_Version.ino): setup(), loop(), the three     *)
(* helper routines fullRangeTest, quickChangeTest and buildLUT, and the    *)
(* voltage-to-code converter dacBipolarVoltageToCode.                      *)
(*                                                                         *)
(* The `float` type of the sketch is IEEE-754 binary32.  A float is a      *)
(* record [k, s, m, e]: k is "fin", "inf" or "nan"; a finite float has the *)
(* value (-1)^s * m * 2^e with 0 <= m < 2^24 and -149 <= e <= 104, kept    *)
(* canonical (m >= 2^23 unless e = -149).  Every operation rounds to       *)
(* nearest, ties to even, as the hardware or the soft-float library does.  *)
(***************************************************************************)
EXTENDS Integers, Sequences, FiniteSets

(***************************************************************************)
(* binary32 arithmetic                                                     *)
(***************************************************************************)
EMin == 0 - 149
EMax == 127 - 23
TwoTo23 == 2^23
TwoTo24 == 2^24

Fin(s, m, e) == [k |-> "fin", s |-> s, m |-> m, e |-> e]
FInf(s) == [k |-> "inf", s |-> s, m |-> 0, e |-> 0]
FNaN == [k |-> "nan", s |-> 0, m |-> 0, e |-> 0]
FZero(s) == Fin(s, 0, EMin)

RECURSIVE BitLen(_)
BitLen(n) == IF n = 0 THEN 0 ELSE 1 + BitLen(n \div 2)

\* The float nearest to (M + f) * 2^e, where 0 <= M < 2^31, and 0 < f < 1 when
\* sticky holds and f = 0 otherwise; callers keep M >= 2^25 when sticky holds.
FRound(s, M, e, sticky) ==
    LET nb == BitLen(M)
        sh == IF nb - 24 > EMin - e THEN nb - 24 ELSE EMin - e
    IN  IF M = 0 THEN FZero(s)
        ELSE IF sh <= 0 THEN
            \* exactly representable: normalise to the left as far as EMin allows
            LET ls == IF 24 - nb < e - EMin THEN 24 - nb ELSE e - EMin
            IN  Fin(s, M * 2^ls, e - ls)
        ELSE IF sh > 30 THEN FZero(s)
        ELSE
            LET q    == M \div 2^sh
                r    == M % 2^sh
                half == 2^(sh - 1)
                up   == \/ r > half
                        \/ r = half /\ sticky
                        \/ r = half /\ ~sticky /\ q % 2 = 1
                m1   == IF up THEN q + 1 ELSE q
                m2   == IF m1 = TwoTo24 THEN TwoTo23 ELSE m1
                e2   == IF m1 = TwoTo24 THEN e + sh + 1 ELSE e + sh
            IN  IF e2 > EMax THEN FInf(s) ELSE Fin(s, m2, e2)

\* (float)n for an unsigned n < 2^24: exact
IntToFloat(n) == FRound(0, n, 0, FALSE)

FIsZero(x) == x.k = "fin" /\ x.m = 0

FNeg(x) == IF x.k = "nan" THEN x ELSE [x EXCEPT !.s = 1 - x.s]

\* magnitude order of two canonical finite floats
MagLt(x, y) == x.e < y.e \/ (x.e = y.e /\ x.m < y.m)

\* x < y; false when either is a NaN
FLt(x, y) ==
    IF x.k = "nan" \/ y.k = "nan" THEN FALSE
    ELSE IF FIsZero(x) /\ FIsZero(y) THEN FALSE
    ELSE IF x.s # y.s THEN x.s = 1
    ELSE IF x.k = "inf" \/ y.k = "inf" THEN
        IF x.k = y.k THEN FALSE
        ELSE IF x.s = 0 THEN y.k = "inf" ELSE x.k = "inf"
    ELSE IF x.s = 0 THEN MagLt(x, y) ELSE MagLt(y, x)

FGt(x, y) == FLt(y, x)

\* x == y; false when either is a NaN, true for +0 and -0
FEq(x, y) ==
    IF x.k = "nan" \/ y.k = "nan" THEN FALSE
    ELSE IF FIsZero(x) /\ FIsZero(y) THEN TRUE
    ELSE x = y

FGe(x, y) == FGt(x, y) \/ FEq(x, y)

\* a nonzero finite float with its mantissa shifted into [2^23, 2^24)
\* (the exponent may leave the binary32 range: an intermediate form)
Normalised(x) ==
    LET ls == 24 - BitLen(x.m) IN [m |-> x.m * 2^ls, e |-> x.e - ls]

\* n steps of restoring division: the quotient bits of r / d after q
RECURSIVE DivBits(_, _, _, _)
DivBits(r, d, n, q) ==
    IF n = 0 THEN [q |-> q, r |-> r]
    ELSE IF 2 * r >= d THEN DivBits(2 * r - d, d, n - 1, 2 * q + 1)
    ELSE DivBits(2 * r, d, n - 1, 2 * q)

\* x / y
FDiv(x, y) ==
    LET s == IF x.s = y.s THEN 0 ELSE 1 IN
    IF x.k = "nan" \/ y.k = "nan" THEN FNaN
    ELSE IF x.k = "inf" THEN (IF y.k = "inf" THEN FNaN ELSE FInf(s))
    ELSE IF y.k = "inf" THEN FZero(s)
    ELSE IF FIsZero(y) THEN (IF FIsZero(x) THEN FNaN ELSE FInf(s))
    ELSE IF FIsZero(x) THEN FZero(s)
    ELSE
        LET a == Normalised(x)
            b == Normalised(y)
            d == DivBits(a.m % b.m, b.m, 26, a.m \div b.m)
        IN  FRound(s, d.q, a.e - b.e - 26, d.r # 0)

\* x * y
FMul(x, y) ==
    LET s == IF x.s = y.s THEN 0 ELSE 1 IN
    IF x.k = "nan" \/ y.k = "nan" THEN FNaN
    ELSE IF x.k = "inf" \/ y.k = "inf" THEN
        (IF FIsZero(x) \/ FIsZero(y) THEN FNaN ELSE FInf(s))
    ELSE IF FIsZero(x) \/ FIsZero(y) THEN FZero(s)
    ELSE
        \* the 48-bit product H * 2^24 + L, by 12-bit limbs
        LET a   == Normalised(x)
            b   == Normalised(y)
            a1  == a.m \div 4096
            a0  == a.m % 4096
            b1  == b.m \div 4096
            b0  == b.m % 4096
            mid == a1 * b0 + a0 * b1
            lo  == (mid % 4096) * 4096 + a0 * b0
            H   == a1 * b1 + mid \div 4096 + lo \div TwoTo24
            L   == lo % TwoTo24
        IN  FRound(s, H * 4 + L \div 2^22, a.e + b.e + 22, L % 2^22 # 0)

\* x + y
FAdd(x, y) ==
    IF x.k = "nan" \/ y.k = "nan" THEN FNaN
    ELSE IF x.k = "inf" THEN (IF y.k = "inf" /\ y.s # x.s THEN FNaN ELSE x)
    ELSE IF y.k = "inf" THEN y
    ELSE IF FIsZero(x) /\ FIsZero(y) THEN FZero(IF x.s = 1 /\ y.s = 1 THEN 1 ELSE 0)
    ELSE IF FIsZero(x) THEN y
    ELSE IF FIsZero(y) THEN x
    ELSE
        LET a  == IF MagLt(x, y) THEN y ELSE x
            b  == IF MagLt(x, y) THEN x ELSE y
            d  == a.e - b.e
            A  == a.m * 64
            B  == IF d <= 6 THEN b.m * 2^(6 - d)
                  ELSE IF d - 6 > 30 THEN 0
                  ELSE b.m \div 2^(d - 6)
            st == IF d <= 6 THEN FALSE
                  ELSE IF d - 6 > 30 THEN TRUE
                  ELSE b.m % 2^(d - 6) # 0
        IN  IF a.s = b.s THEN FRound(a.s, A + B, a.e - 6, st)
            ELSE IF st THEN FRound(a.s, A - B - 1, a.e - 6, TRUE)
            ELSE IF A = B THEN FZero(0)
            ELSE FRound(a.s, A - B, a.e - 6, FALSE)

INT32_MIN == 0 - 2147483647 - 1
INT32_MAX == 2147483647 + 0

\* x truncated toward zero, as an integer
FTrunc(x) ==
    IF x.m = 0 THEN 0
    ELSE LET mag == IF x.e >= 0 THEN x.m * 2^(x.e)
                    ELSE IF 0 - x.e > 30 THEN 0
                    ELSE x.m \div 2^(0 - x.e)
         IN  IF x.s = 1 THEN 0 - mag ELSE mag

\* whether the truncated value of x is an integer of magnitude < 2^31
FTruncable(x) == x.k = "fin" /\ (x.m = 0 \/ x.e <= 7)

\* (int32_t)x.  The conversion of a NaN, an infinity or a value outside the
\* range of int32_t is undefined: the build may yield any int32_t, of which
\* these stand for the cases the callers tell apart.
UBInt32 == {INT32_MIN, 0 - 1, 0, 1, 16383, 16384, INT32_MAX}
FToInt32(x) == IF FTruncable(x) THEN {FTrunc(x)} ELSE UBInt32

\* static_cast<uint16_t>(x), undefined outside [0, 65535] likewise
UBUInt16 == {0, 1, 16383, 16384, 65535}
FToUInt16(x) ==
    IF FTruncable(x) /\ FTrunc(x) >= 0 /\ FTrunc(x) <= 65535
    THEN {FTrunc(x)} ELSE UBUInt16

Half == Fin(0, TwoTo23, 0 - 24)
One == Fin(0, TwoTo23, 0 - 23)

(***************************************************************************)
(* Program constants                                                       *)
(***************************************************************************)
DAC_14_BIT == 16383
TABLE_SIZE == 16
\* (float)4.096
REF_VOLT == Fin(0, 8589935, 0 - 21)
\* 2.0f * PI in binary32
TwoPi == Fin(0, 13176795, 0 - 21)

\* U8 for a parameter declared uint16_t
U8_wide(n) == n % 65536

\* the value an argument takes in a uint8_t / uint16_t parameter
U8(n) == n % 256
U16(n) == n % 65536

(***************************************************************************)
(* dacBipolarVoltageToCode: the set of codes the call can return (one,     *)
(* unless the float-to-int conversion is undefined)                        *)
(***************************************************************************)
\* halfScaleOf without the "- 1"
halfScaleOf_full(bits) == 2^bits

\* line 170
halfScaleOf(bits) == 2^(bits - 1)

\* maxCodeOf without the "- 1"
maxCodeOf_pow(bits) == 2^bits

\* line 174
maxCodeOf(bits) == 2^bits - 1

\* clampCode as a mask, the way buildLUT bounds its codes (line 152)
clampCode_masked(code_i, maxCode) == code_i % (maxCode + 1)

\* clampCode without line 176
clampCode_noUpper(code_i, maxCode) == IF code_i < 0 THEN 0 ELSE code_i

\* lines 175-176
clampCode(code_i, maxCode) ==
    IF code_i < 0 THEN 0 ELSE IF code_i > maxCode THEN maxCode ELSE code_i

\* clampBits with the limit of a 16-bit word
clampBits_16(bits) == IF bits > 16 THEN 16 ELSE bits

\* line 162
clampBits(bits) == IF bits > 14 THEN 14 ELSE bits

\* absVref without the negation
absVref_kept(vref) == vref

\* line 164
absVref(vref) == IF FGe(vref, FZero(0)) THEN vref ELSE FNeg(vref)

\* isZeroRef with the guard of line 165 left out
isZeroRef_never(VREF) == FALSE

\* line 165
isZeroRef(VREF) == FEq(VREF, FZero(0))

\* clampVout without line 167
clampVout_noUpper(vout, VREF) ==
    IF FLt(vout, FNeg(VREF)) THEN FNeg(VREF) ELSE vout

\* lines 167-168
clampVout(vout, VREF) ==
    LET vout1 == IF FGt(vout, VREF) THEN VREF ELSE vout
    IN  IF FLt(vout1, FNeg(VREF)) THEN FNeg(VREF) ELSE vout1

dacBipolarVoltageToCode(bits0, vref, vout0) ==
    LET bits      == clampBits(bits0)
        VREF      == absVref(vref)
        vout      == clampVout(vout0, VREF)
        halfScale == halfScaleOf(bits)
        code_f    == FAdd(FMul(FDiv(vout, VREF), IntToFloat(halfScale)),
                          IntToFloat(halfScale))
        maxCode   == maxCodeOf(bits)
    IN  IF bits0 = 0 THEN {0}
        ELSE IF isZeroRef(VREF) THEN {0}
        ELSE { U16(clampCode(code_i, maxCode)) :
                 code_i \in FToInt32(FAdd(code_f, Half)) }

(***************************************************************************)
(* buildLUT                                                                *)
(***************************************************************************)
\* sinf at the sixteen angles 2*pi*i/16 the table is built from
SinfTable ==
    { <<Fin(0, 0, EMin),          Fin(0, 0, EMin)>>,
      <<Fin(0, 13176795, 0 - 25), Fin(0, 12840726, 0 - 25)>>,
      <<Fin(0, 13176795, 0 - 24), Fin(0, 11863283, 0 - 24)>>,
      <<Fin(0, 9882596, 0 - 23),  Fin(0, 15500126, 0 - 24)>>,
      <<Fin(0, 13176795, 0 - 23), Fin(0, 8388608, 0 - 23)>>,
      <<Fin(0, 16470994, 0 - 23), Fin(0, 15500126, 0 - 24)>>,
      <<Fin(0, 9882596, 0 - 22),  Fin(0, 11863283, 0 - 24)>>,
      <<Fin(0, 11529696, 0 - 22), Fin(0, 12840720, 0 - 25)>>,
      <<Fin(0, 13176795, 0 - 22), Fin(1, 12303662, 0 - 47)>>,
      <<Fin(0, 14823894, 0 - 22), Fin(1, 12840725, 0 - 25)>>,
      <<Fin(0, 16470994, 0 - 22), Fin(1, 11863285, 0 - 24)>>,
      <<Fin(0, 9059047, 0 - 21),  Fin(1, 15500129, 0 - 24)>>,
      <<Fin(0, 9882596, 0 - 21),  Fin(1, 8388608, 0 - 23)>>,
      <<Fin(0, 10706146, 0 - 21), Fin(1, 15500125, 0 - 24)>>,
      <<Fin(0, 11529696, 0 - 21), Fin(1, 11863279, 0 - 24)>>,
      <<Fin(0, 12353245, 0 - 21), Fin(1, 12840725, 0 - 25)>> }

Sinf(x) == (CHOOSE p \in SinfTable : p[1] = x)[2]

\* LUTEntry scaled by 2^14 instead of the full-scale code 2^14 - 1
LUTEntry_pow2(i, tableSize, bits) ==
    LET theta == FDiv(FMul(TwoPi, IntToFloat(i)), IntToFloat(tableSize))
        amp   == FAdd(FMul(Sinf(theta), Half), Half)
    IN  { code % 16384 :
            code \in FToUInt16(FAdd(FMul(amp, IntToFloat(bits + 1)), Half)) }

\* the codes one pass of the loop body can store in sineLUT[i]
LUTEntry(i, tableSize, bits) ==
    LET theta == FDiv(FMul(TwoPi, IntToFloat(i)), IntToFloat(tableSize))
        amp   == FAdd(FMul(Sinf(theta), Half), Half)
    IN  { code % 16384 :
            code \in FToUInt16(FAdd(FMul(amp, IntToFloat(bits)), Half)) }

(***************************************************************************)
(* The sketch as a state machine                                           *)
(***************************************************************************)
\* The four MODE_OUTPUT_* macros.  The build configuration is the set of them
\* that is defined: each #if block is compiled on its own, so any subset builds.
Modes == {"SINGLE_VALUE", "FULL_RANGE", "SINE_WAVE", "QUICK_CHANGE"}

\* the greatest `bits` argument of fullRangeTest tried besides DAC_14_BIT
MaxRampBits == 3
\* the transfer count is kept exactly up to this value, then as "this or more"
MaxCount == 3

\* the build's values of outputThisVoltage: -1.0 (as shipped), 0.0, 2.5, 5.0
OutputVoltages ==
    { Fin(1, TwoTo23, 0 - 23), FZero(0), Fin(0, 10485760, 0 - 22),
      Fin(0, 10485760, 0 - 21) }

\* the argument triples the converter is applied to on its own
ArgBits == (0 .. 16) \cup {255}
ArgFloats ==
    { FZero(0), FZero(1), One, FNeg(One), REF_VOLT, FNeg(REF_VOLT),
      Fin(0, 10485760, 0 - 22), Fin(1, 10485760, 0 - 22),
      Fin(0, 8589725, 0 - 21), Fin(1, 8589725, 0 - 21),
      Fin(0, 10485760, 0 - 21), Fin(1, 10485760, 0 - 21),
      Fin(0, 8589935, 0 - 34), Fin(1, 8589935, 0 - 34),
      Fin(0, TwoTo23, 0 - 25), Fin(1, TwoTo23, 0 - 25),
      Fin(0, 1, EMin), Fin(1, 1, EMin),
      Fin(0, TwoTo24 - 1, EMax), Fin(1, TwoTo24 - 1, EMax),
      FInf(0), FInf(1), FNaN }
NoArgs == [bits |-> 0, vref |-> FZero(0), vout |-> FZero(0)]

VARIABLES
    modes,              \* the MODE_OUTPUT_* macros defined in this build
    cntUp,              \* first argument of fullRangeTest at its call (line 96)
    rampBits,           \* second argument of fullRangeTest at its call (line 96)
    outputThisVoltage,  \* the global of line 51
    pc,                 \* the statement about to run
    pinModeCS,          \* the select pin's mode: "INPUT" until pinMode, then "OUTPUT"
    pinCS,              \* the level last written to the select pin, "UNWRITTEN" at first
    spi,                \* "off", "begun", "transaction"
    sineLUT,            \* the global table of line 57
    tableCounter,       \* the global cursor of line 58
    i,                  \* buildLUT's loop variable
    j,                  \* fullRangeTest's loop variable
    val,                \* quickChangeTest's toggle
    dacCode,            \* setup's local of line 75
    arg,                \* the arguments of the converter's last call
    ret,                \* the converter's last result (-1: not called)
    lastWord,           \* the last word sent by SPI.transfer16 (-1: none)
    prevWord,           \* the word sent before lastWord (-1: none)
    lastEv,             \* the last select-line or bus event: "none", "low", "xfer", "high"
    pulse,              \* transfers since the select line was last written low
    nXfer,              \* transfers so far, saturating at MaxCount
    active,             \* the pattern generators that have made a transfer
    iterXfer,           \* transfers made by the current call of loop(), saturating at MaxCount
    sineN,              \* sine samples sent so far, modulo TABLE_SIZE
    rampN               \* transfers made by the current call of fullRangeTest

vars == << modes, cntUp, rampBits, outputThisVoltage, pc, pinModeCS, pinCS, spi,
           sineLUT, tableCounter, i, j, val, dacCode, arg, ret, lastWord,
           prevWord, lastEv, pulse, nXfer, active, iterXfer, sineN, rampN >>

config == << modes, cntUp, rampBits, outputThisVoltage >>
locals == << i, j, val, dacCode, arg, ret, rampN >>
globals == << sineLUT, tableCounter >>
bus == << pinCS, lastWord, prevWord, lastEv, pulse, nXfer, active, iterXfer, sineN >>

\* State at the start of setup(): globals zero-initialised (lines 57-58), the
\* select pin not yet configured, nothing sent.
ProgramStart ==
    /\ pc = "setup_pinMode"
    /\ pinModeCS = "INPUT" /\ pinCS = "UNWRITTEN"
    /\ spi = "off"
    /\ sineLUT = [k \in 0 .. TABLE_SIZE - 1 |-> 0]
    /\ tableCounter = 0
    /\ i = 0 /\ j = 0 /\ val = FALSE /\ dacCode = 0
    /\ arg = NoArgs /\ ret = 0 - 1
    /\ lastWord = 0 - 1 /\ prevWord = 0 - 1
    /\ lastEv = "none" /\ pulse = 0 /\ nXfer = 0 /\ active = {}
    /\ iterXfer = 0 /\ sineN = 0 /\ rampN = 0

\* The builds: every subset of the mode macros.  The arguments of line 96 are
\* the shipped ones (true, DAC_14_BIT) or, in a build that runs the ramp, either
\* direction and a smaller range; outputThisVoltage varies in a build that uses it.
Init ==
    /\ modes \in SUBSET Modes
    /\ cntUp \in (IF "FULL_RANGE" \in modes THEN BOOLEAN ELSE {TRUE})
    /\ rampBits \in (IF modes = {"FULL_RANGE"} THEN (0 .. MaxRampBits) \cup {DAC_14_BIT}
                     ELSE IF "FULL_RANGE" \in modes THEN 0 .. MaxRampBits
                     ELSE {DAC_14_BIT})
    /\ outputThisVoltage \in (IF "SINGLE_VALUE" \in modes THEN OutputVoltages
                              ELSE {Fin(1, TwoTo23, 0 - 23)})
    /\ ProgramStart

\* digitalWrite(PIN_CS, level)
digitalWrite(level) ==
    /\ pinCS' = level
    /\ lastEv' = (IF level = "LOW" THEN "low" ELSE "high")
    /\ pulse' = (IF level = "LOW" THEN 0 ELSE pulse)
    /\ UNCHANGED << lastWord, prevWord, nXfer, active, iterXfer, sineN >>

\* SPI.transfer16(word), made by pattern generator gen
transfer16(word, gen) ==
    /\ lastWord' = word
    /\ prevWord' = lastWord
    /\ lastEv' = "xfer"
    /\ pulse' = pulse + 1
    /\ nXfer' = (IF nXfer < MaxCount THEN nXfer + 1 ELSE nXfer)
    /\ active' = active \cup {gen}
    /\ iterXfer' = (IF gen # "SINGLE_VALUE" /\ iterXfer < MaxCount
                    THEN iterXfer + 1 ELSE iterXfer)
    /\ sineN' = (IF gen = "SINE_WAVE" THEN (sineN + 1) % TABLE_SIZE ELSE sineN)
    /\ UNCHANGED pinCS

\* where control goes after each conditionally compiled block
AfterPinInit == IF "SINE_WAVE" \in modes THEN "buildLUT_call" ELSE "setup_spiBegin"
AfterSpiInit == IF "SINGLE_VALUE" \in modes THEN "single_convert" ELSE "loop"
AfterRamp == IF "QUICK_CHANGE" \in modes THEN "quick_call" ELSE "loop"
AfterSine == IF "FULL_RANGE" \in modes THEN "ramp_call" ELSE AfterRamp
\* LoopBody with the single-value transfer of lines 76-78 placed in loop()
LoopBody_resend ==
    IF "SINGLE_VALUE" \in modes THEN "single_low"
    ELSE IF "SINE_WAVE" \in modes THEN "sine_low" ELSE AfterSine
LoopBody == IF "SINE_WAVE" \in modes THEN "sine_low" ELSE AfterSine

(*------------------------------- setup ----------------------------------*)
\* line 62
setup_pinMode ==
    /\ pc = "setup_pinMode"
    /\ pinModeCS' = "OUTPUT"
    /\ pc' = "setup_csHigh"
    /\ UNCHANGED << config, spi, globals, locals, bus >>

\* line 63
setup_csHigh ==
    /\ pc = "setup_csHigh"
    /\ digitalWrite("HIGH")
    /\ pc' = AfterPinInit
    /\ UNCHANGED << config, pinModeCS, spi, globals, locals >>

\* line 66: call of buildLUT(TABLE_SIZE, DAC_14_BIT)
buildLUT_call ==
    /\ pc = "buildLUT_call"
    /\ i' = 0
    /\ pc' = "buildLUT_for"
    /\ UNCHANGED << config, pinModeCS, spi, globals, j, val, dacCode, arg, ret, rampN, bus >>

\* lines 147-153: one pass of the loop
buildLUT_body ==
    /\ pc = "buildLUT_for"
    /\ i < TABLE_SIZE
    /\ \E code \in LUTEntry(i, TABLE_SIZE, DAC_14_BIT) :
          sineLUT' = [sineLUT EXCEPT ![i] = code]
    /\ i' = U16(i + 1)
    /\ UNCHANGED << config, pc, pinModeCS, spi, tableCounter, j, val, dacCode, arg, ret,
                    rampN, bus >>

\* buildLUT_return with the loop left one pass early
buildLUT_return_early ==
    /\ pc = "buildLUT_for"
    /\ ~(i < TABLE_SIZE - 1)
    /\ pc' = "setup_spiBegin"
    /\ UNCHANGED << config, pinModeCS, spi, globals, locals, bus >>

\* line 147, condition false: buildLUT returns
buildLUT_return ==
    /\ pc = "buildLUT_for"
    /\ ~(i < TABLE_SIZE)
    /\ pc' = "setup_spiBegin"
    /\ UNCHANGED << config, pinModeCS, spi, globals, locals, bus >>

\* line 70
setup_spiBegin ==
    /\ pc = "setup_spiBegin"
    /\ spi' = "begun"
    /\ pc' = "setup_spiTransaction"
    /\ UNCHANGED << config, pinModeCS, globals, locals, bus >>

\* line 71
setup_spiTransaction ==
    /\ pc = "setup_spiTransaction"
    /\ spi' = "transaction"
    /\ pc' = AfterSpiInit
    /\ UNCHANGED << config, pinModeCS, globals, locals, bus >>

\* line 75: DAC_14_BIT is passed in the uint8_t parameter `bits`
single_convert ==
    /\ pc = "single_convert"
    /\ arg' = [bits |-> U8(DAC_14_BIT), vref |-> REF_VOLT, vout |-> outputThisVoltage]
    /\ ret' \in dacBipolarVoltageToCode(arg'.bits, arg'.vref, arg'.vout)
    /\ dacCode' = ret'
    /\ pc' = "single_low"
    /\ UNCHANGED << config, pinModeCS, spi, globals, i, j, val, rampN, bus >>

\* line 76
single_low ==
    /\ pc = "single_low"
    /\ digitalWrite("LOW")
    /\ pc' = "single_xfer"
    /\ UNCHANGED << config, pinModeCS, spi, globals, locals >>

\* line 77
single_xfer ==
    /\ pc = "single_xfer"
    /\ transfer16(dacCode, "SINGLE_VALUE")
    /\ pc' = "single_high"
    /\ UNCHANGED << config, pinModeCS, spi, globals, locals >>

\* line 78, then setup returns
single_high ==
    /\ pc = "single_high"
    /\ digitalWrite("HIGH")
    /\ pc' = "loop"
    /\ UNCHANGED << config, pinModeCS, spi, globals, locals >>

(*-------------------------------- loop ----------------------------------*)
\* main calls loop(): control reaches the first statement compiled into it, or
\* loop returns at once when there is none
loop ==
    /\ pc = "loop"
    /\ pc' = LoopBody
    /\ iterXfer' = 0
    /\ UNCHANGED << config, pinModeCS, spi, globals, locals, pinCS, lastWord, prevWord,
                    lastEv, pulse, nXfer, active, sineN >>

\* line 86
sine_low ==
    /\ pc = "sine_low"
    /\ digitalWrite("LOW")
    /\ pc' = "sine_xfer"
    /\ UNCHANGED << config, pinModeCS, spi, globals, locals >>

\* the words the read sineLUT[tableCounter] can yield: the entry, or anything
\* when the index is outside the array (undefined)
sineLUT_read ==
    IF tableCounter < TABLE_SIZE THEN {sineLUT[tableCounter]} ELSE UBUInt16

\* line 87
sine_xfer ==
    /\ pc = "sine_xfer"
    /\ \E word \in sineLUT_read : transfer16(word, "SINE_WAVE")
    /\ pc' = "sine_high"
    /\ UNCHANGED << config, pinModeCS, spi, globals, locals >>

\* line 88
sine_high ==
    /\ pc = "sine_high"
    /\ digitalWrite("HIGH")
    /\ pc' = "sine_inc"
    /\ UNCHANGED << config, pinModeCS, spi, globals, locals >>

\* line 89
sine_inc ==
    /\ pc = "sine_inc"
    /\ tableCounter' = U16(tableCounter + 1)
    /\ pc' = "sine_wrap"
    /\ UNCHANGED << config, pinModeCS, spi, sineLUT, locals, bus >>

\* sine_wrap with > for >=
sine_wrap_late ==
    /\ pc = "sine_wrap"
    /\ tableCounter' = (IF tableCounter > TABLE_SIZE THEN 0 ELSE tableCounter)
    /\ pc' = AfterSine
    /\ UNCHANGED << config, pinModeCS, spi, sineLUT, locals, bus >>

\* line 90
sine_wrap ==
    /\ pc = "sine_wrap"
    /\ tableCounter' = (IF tableCounter >= TABLE_SIZE THEN 0 ELSE tableCounter)
    /\ pc' = AfterSine
    /\ UNCHANGED << config, pinModeCS, spi, sineLUT, locals, bus >>

(*--------------------------- fullRangeTest ------------------------------*)
\* line 96: call of fullRangeTest(cntUp, rampBits); lines 110/117: j = 0
fullRangeTest_call ==
    /\ pc = "ramp_call"
    /\ j' = 0
    /\ rampN' = 0
    /\ pc' = "ramp_for"
    /\ UNCHANGED << config, pinModeCS, spi, globals, i, val, dacCode, arg, ret, bus >>

\* fullRangeTest_cond running one pass too many, and one too few
fullRangeTest_cond_long(jj, bits) == jj <= bits + 1
fullRangeTest_cond_short(jj, bits) == jj < bits

\* the loop condition of lines 110 and 117
fullRangeTest_cond(jj, bits) == jj < bits + 1

\* lines 110/117, condition true: into the body
fullRangeTest_enter ==
    /\ pc = "ramp_for"
    /\ fullRangeTest_cond(j, rampBits)
    /\ pc' = "ramp_low"
    /\ UNCHANGED << config, pinModeCS, spi, globals, locals, bus >>

\* lines 110/117, condition false: fullRangeTest returns
fullRangeTest_return ==
    /\ pc = "ramp_for"
    /\ ~fullRangeTest_cond(j, rampBits)
    /\ pc' = AfterRamp
    /\ UNCHANGED << config, pinModeCS, spi, globals, locals, bus >>

\* lines 111/118
fullRangeTest_low ==
    /\ pc = "ramp_low"
    /\ digitalWrite("LOW")
    /\ pc' = "ramp_xfer"
    /\ UNCHANGED << config, pinModeCS, spi, globals, locals >>

\* fullRangeTest_word counting down from bits - 1
fullRangeTest_word_shifted(up, jj, bits) == IF up THEN jj ELSE U16(bits - jj - 1)

\* the word of line 112 (counting up) or line 119 (counting down)
fullRangeTest_word(up, jj, bits) == IF up THEN jj ELSE U16(bits - jj)

\* lines 112/119
fullRangeTest_xfer ==
    /\ pc = "ramp_xfer"
    /\ transfer16(fullRangeTest_word(cntUp, j, rampBits), "FULL_RANGE")
    /\ rampN' = rampN + 1
    /\ pc' = "ramp_high"
    /\ UNCHANGED << config, pinModeCS, spi, globals, i, j, val, dacCode, arg, ret >>

\* lines 113/120
fullRangeTest_high ==
    /\ pc = "ramp_high"
    /\ digitalWrite("HIGH")
    /\ pc' = "ramp_inc"
    /\ UNCHANGED << config, pinModeCS, spi, globals, locals >>

\* lines 110/117: j++
fullRangeTest_inc ==
    /\ pc = "ramp_inc"
    /\ j' = U16(j + 1)
    /\ pc' = "ramp_for"
    /\ UNCHANGED << config, pinModeCS, spi, globals, i, val, dacCode, arg, ret, rampN, bus >>

(*-------------------------- quickChangeTest -----------------------------*)
\* line 101: call of quickChangeTest(DAC_14_BIT); line 129
quickChangeTest_call ==
    /\ pc = "quick_call"
    /\ val' = FALSE
    /\ pc' = "quick_low"
    /\ UNCHANGED << config, pinModeCS, spi, globals, i, j, dacCode, arg, ret, rampN, bus >>

\* line 131
quickChangeTest_low ==
    /\ pc = "quick_low"
    /\ digitalWrite("LOW")
    /\ pc' = "quick_xfer"
    /\ UNCHANGED << config, pinModeCS, spi, globals, locals >>

\* quickChangeTest_word sending the upper code on both branches
quickChangeTest_word_stuck(v, bits) == bits

\* the word of line 133 or 137
quickChangeTest_word(v, bits) == IF v THEN bits ELSE 0

\* lines 132-139
quickChangeTest_xfer ==
    /\ pc = "quick_xfer"
    /\ transfer16(quickChangeTest_word(val, DAC_14_BIT), "QUICK_CHANGE")
    /\ val' = ~val
    /\ pc' = "quick_high"
    /\ UNCHANGED << config, pinModeCS, spi, globals, i, j, dacCode, arg, ret, rampN >>

\* quickChangeTest_high without the write of line 140
quickChangeTest_high_kept ==
    /\ pc = "quick_high"
    /\ pc' = "quick_low"
    /\ UNCHANGED << config, pinModeCS, spi, globals, locals, bus >>

\* line 140, then back to line 130: while (1)
quickChangeTest_high ==
    /\ pc = "quick_high"
    /\ digitalWrite("HIGH")
    /\ pc' = "quick_low"
    /\ UNCHANGED << config, pinModeCS, spi, globals, locals >>

\* the steps that compute nothing in floating point
NextPlain ==
    \/ setup_pinMode \/ setup_csHigh
    \/ buildLUT_call \/ buildLUT_return
    \/ setup_spiBegin \/ setup_spiTransaction
    \/ single_low \/ single_xfer \/ single_high
    \/ loop
    \/ sine_low \/ sine_xfer \/ sine_high \/ sine_inc \/ sine_wrap
    \/ fullRangeTest_call \/ fullRangeTest_enter \/ fullRangeTest_return
    \/ fullRangeTest_low \/ fullRangeTest_xfer \/ fullRangeTest_high
    \/ fullRangeTest_inc
    \/ quickChangeTest_call \/ quickChangeTest_low \/ quickChangeTest_xfer
    \/ quickChangeTest_high

Next == NextPlain \/ buildLUT_body \/ single_convert

Spec == Init /\ [][Next]_vars

\* The processor always runs the next statement: main calls loop() again
\* whenever it returns, and nothing else is scheduled.  buildLUT_body and
\* single_convert always have a result, so each is enabled exactly when
\* control is at it; their fairness is stated on the control variables they
\* advance, which spares evaluating the arithmetic to decide enabledness.
buildLUT_pass == pc = "buildLUT_for" /\ i < TABLE_SIZE /\ pc' = pc /\ i' = U16(i + 1)
single_pass == pc = "single_convert" /\ pc' = "single_low"
FairSpec ==
    Spec /\ WF_vars(NextPlain) /\ WF_<<pc, i>>(buildLUT_pass) /\ WF_pc(single_pass)

(***************************************************************************)
(* The converter on its own: any arguments, one call                       *)
(***************************************************************************)
ConvInit ==
    /\ modes = {"SINGLE_VALUE"} /\ cntUp = TRUE /\ rampBits = DAC_14_BIT
    /\ outputThisVoltage = Fin(1, TwoTo23, 0 - 23)
    /\ pc = "conv_call"
    /\ pinModeCS = "INPUT" /\ pinCS = "UNWRITTEN" /\ spi = "off"
    /\ sineLUT = [k \in 0 .. TABLE_SIZE - 1 |-> 0]
    /\ tableCounter = 0
    /\ i = 0 /\ j = 0 /\ val = FALSE /\ dacCode = 0
    /\ arg \in [bits : ArgBits, vref : ArgFloats, vout : ArgFloats]
    /\ ret = 0 - 1
    /\ lastWord = 0 - 1 /\ prevWord = 0 - 1
    /\ lastEv = "none" /\ pulse = 0 /\ nXfer = 0 /\ active = {}
    /\ iterXfer = 0 /\ sineN = 0 /\ rampN = 0

\* lines 159-179: one call with the arguments arg
convert ==
    /\ pc = "conv_call"
    /\ ret' \in dacBipolarVoltageToCode(arg.bits, arg.vref, arg.vout)
    /\ pc' = "conv_ret"
    /\ UNCHANGED << config, pinModeCS, spi, globals, i, j, val, dacCode, arg, rampN, bus >>

ConvNext == convert

ConvSpec == ConvInit /\ [][ConvNext]_vars


(***************************************************************************)
(* Properties                                                              *)
(***************************************************************************)
\* a step that makes a bus transfer
TransferStep == pulse' = pulse + 1
\* no transfer is in progress: the select line was not written low since the
\* last transfer was closed
Idle == lastEv \notin {"low", "xfer"}

SingleOnly == modes = {"SINGLE_VALUE"}
RampOnly == modes = {"FULL_RANGE"}
SineOnly == modes = {"SINE_WAVE"}
QuickOnly == modes = {"QUICK_CHANGE"}

\* C1: every transfer is framed.  In every build, the step before a transfer
\* writes the select line low and the step after it writes the line high, so a
\* low pulse holds exactly one transfer; outside a transfer the sketch never
\* holds the line low, and from setup's write of line 63 on (the startup
\* default, made before the first transfer) the line is high whenever no
\* transfer is in progress.
C1_Inv ==
    /\ lastEv = "low" => pinCS = "LOW" /\ pulse = 0
    /\ lastEv = "xfer" => pinCS = "LOW" /\ pulse = 1
    /\ Idle => pinCS # "LOW"
    /\ Idle /\ pc \notin {"setup_pinMode", "setup_csHigh"} =>
          pinCS = "HIGH" /\ pinModeCS = "OUTPUT"
    /\ lastEv = "none" => nXfer = 0
C1_Step ==
    /\ TransferStep => lastEv = "low" /\ pinCS = "LOW"
    /\ lastEv = "low" => TransferStep
    /\ lastEv = "xfer" => lastEv' = "high" /\ pinCS' = "HIGH"
C1_Framed == []C1_Inv /\ [][C1_Step]_vars
\* several transfers made, the last one closed
C1_Witness == nXfer = MaxCount /\ lastEv = "high" /\ pinCS = "HIGH" /\ pc = "loop"

\* C2: every word sent, in every build and at every point, is a 16-bit word
\* whose top two bits are zero (0 .. 16383).
C2_TopBitsZero == lastWord # 0 - 1 => lastWord \in 0 .. 65535 /\ lastWord \div 2^14 = 0
\* the greatest such word is sent
C2_Witness == lastWord = 2^14 - 1 /\ lastEv = "xfer"

\* C3: the ascending ramp.  In the build with only FULL_RANGE and cntUp true,
\* each transfer sends 0 after nothing or after rampBits and the previous word
\* plus one otherwise; fullRangeTest returns after exactly rampBits + 1
\* transfers, the last of them rampBits; and transfers never cease.
RampUp == RampOnly /\ cntUp
C3_Step ==
    RampUp =>
      /\ TransferStep =>
            lastWord' = (IF lastWord \in {0 - 1, rampBits} THEN 0 ELSE lastWord + 1)
      /\ pc = "ramp_for" /\ pc' = "loop" =>
            rampN = rampBits + 1 /\ lastWord = rampBits
C3_RampUp == [][C3_Step]_vars /\ []<>(RampUp => lastEv = "xfer")
\* the second cycle of the full 14-bit ramp has begun
C3_Witness ==
    /\ RampUp /\ rampBits = DAC_14_BIT
    /\ lastWord = 0 /\ prevWord = DAC_14_BIT /\ lastEv = "xfer"

\* C4: the descending ramp.  In the build with only FULL_RANGE and cntUp
\* false, each transfer sends rampBits after nothing or after 0 and the
\* previous word minus one otherwise, never a word outside 0 .. rampBits;
\* fullRangeTest returns after exactly rampBits + 1 transfers, the last of
\* them 0; and transfers never cease.
RampDown == RampOnly /\ ~cntUp
C4_Step ==
    RampDown =>
      /\ TransferStep =>
            /\ lastWord' = (IF lastWord \in {0 - 1, 0} THEN rampBits ELSE lastWord - 1)
            /\ lastWord' \in 0 .. rampBits
      /\ pc = "ramp_for" /\ pc' = "loop" =>
            rampN = rampBits + 1 /\ lastWord = 0
C4_RampDown == [][C4_Step]_vars /\ []<>(RampDown => lastEv = "xfer")
\* the second cycle of the full 14-bit descending ramp has begun
C4_Witness ==
    /\ RampDown /\ rampBits = DAC_14_BIT
    /\ lastWord = DAC_14_BIT /\ prevWord = 0 /\ lastEv = "xfer"

\* C5: sine playback.  In the build with only SINE_WAVE the cursor is 0 until
\* the first transfer; every transfer reads inside the table, sends
\* sineLUT[tableCounter], and finds the cursor equal to the number of samples
\* sent so far modulo TABLE_SIZE (so it is back where it was after any
\* TABLE_SIZE samples); each call of loop() makes exactly one transfer and
\* leaves the cursor advanced by one modulo TABLE_SIZE; transfers never cease.
C5_Inv ==
    SineOnly =>
      /\ tableCounter \in 0 .. TABLE_SIZE
      /\ nXfer = 0 => tableCounter = 0
      /\ pc = "sine_xfer" => tableCounter \in 0 .. TABLE_SIZE - 1
      /\ pc = "loop" => tableCounter = sineN
C5_Step ==
    SineOnly =>
      /\ TransferStep =>
            /\ tableCounter < TABLE_SIZE
            /\ tableCounter = sineN
            /\ lastWord' = sineLUT[tableCounter]
      /\ pc = "sine_wrap" =>
            pc' = "loop" /\ iterXfer = 1 /\ tableCounter' = sineN
C5_Sine == []C5_Inv /\ [][C5_Step]_vars /\ []<>(SineOnly => lastEv = "xfer")
\* the cursor has wrapped: the last sample sent was the table's last entry
C5_Witness ==
    /\ SineOnly /\ pc = "loop" /\ tableCounter = 0 /\ sineN = 0
    /\ nXfer = MaxCount /\ lastWord = sineLUT[TABLE_SIZE - 1]

\* C6: the quick-change toggle.  In the build with only QUICK_CHANGE, control
\* never leaves the loop of lines 130-141 once inside it, every transfer sends
\* 0 or 16383 and never the word sent just before, and transfers never cease.
QuickLoop == {"quick_low", "quick_xfer", "quick_high"}
C6_Step ==
    QuickOnly =>
      /\ pc \in QuickLoop => pc' \in QuickLoop
      /\ TransferStep => lastWord' \in {0, 2^14 - 1} /\ lastWord' # lastWord
C6_Toggle == [][C6_Step]_vars /\ []<>(QuickOnly => lastEv = "xfer")
\* both words have been sent, one after the other
C6_Witness ==
    /\ QuickOnly /\ pc = "quick_high"
    /\ lastWord = 0 /\ prevWord = 2^14 - 1 /\ nXfer = MaxCount

\* C7: the single value.  In the build with only SINGLE_VALUE at most one
\* transfer is ever made; it is made in setup, by the single-value block, and
\* sends the 14-bit code of outputThisVoltage at the 4.096 V reference; once
\* setup has returned exactly one transfer has been made, and no step of
\* loop() changes anything.
C7_Inv ==
    SingleOnly =>
      /\ nXfer <= 1
      /\ nXfer = 1 =>
            /\ pc \in {"single_high", "loop"}
            /\ active = {"SINGLE_VALUE"}
            /\ lastWord \in dacBipolarVoltageToCode(14, REF_VOLT, outputThisVoltage)
      /\ pc = "loop" => nXfer = 1 /\ pinCS = "HIGH"
C7_Single == []C7_Inv /\ [][SingleOnly /\ pc = "loop" => vars' = vars]_vars
\* the shipped voltage, -1.0 V, has been sent and setup has returned
C7_Witness ==
    /\ SingleOnly /\ pc = "loop" /\ nXfer = 1
    /\ outputThisVoltage = FNeg(One) /\ lastWord = 6192

\* C8: all the transfers of an execution come from one pattern generator.
C8_OneGenerator == Cardinality(active) <= 1

\* the resolution the converter works at
ClampedBits(bits) == IF bits > 14 THEN 14 ELSE bits
Returned == pc = "conv_ret"

\* C9: whatever its arguments (any bits 0 .. 255, any vref and vout, a zero, an
\* infinity or a NaN among them), the converter returns a code in
\* 0 .. 2^b - 1, b being bits clamped to at most 14.
C9_InRange == Returned => ret \in 0 .. 2^ClampedBits(arg.bits) - 1
\* a call with bits above 14 and a negative reference returned the top code
C9_Witness ==
    /\ Returned /\ arg.bits = 255 /\ arg.vref = FNeg(REF_VOLT)
    /\ arg.vout = FInf(0) /\ ret = 2^14 - 1

\* C10: for bits in 1 .. 14 and a finite vref > 0, the converter returns
\* 2^bits - 1 for vout = vref and 0 for vout = -vref.
ValidArgs == arg.bits \in 1 .. 14 /\ arg.vref.k = "fin" /\ FGt(arg.vref, FZero(0))
C10_Endpoints ==
    Returned /\ ValidArgs =>
      /\ arg.vout = arg.vref => ret = 2^(arg.bits) - 1
      /\ arg.vout = FNeg(arg.vref) => ret = 0
\* both endpoints of a 14-bit call at 4.096 V are reached
C10_Witness ==
    /\ Returned /\ ValidArgs /\ arg.bits = 14 /\ arg.vref = REF_VOLT
    /\ \/ arg.vout = REF_VOLT /\ ret = 16383
       \/ arg.vout = FNeg(REF_VOLT) /\ ret = 0

\* C11: for bits in 1 .. 14 and any vref > 0, zero volts converts to the
\* mid-scale code 2^(bits-1) exactly.
C11_MidScale ==
    Returned /\ arg.bits \in 1 .. 14 /\ FGt(arg.vref, FZero(0))
             /\ FEq(arg.vout, FZero(0))
      => ret = 2^(arg.bits - 1)
\* a 14-bit call at 4.096 V with zero volts returned 8192
C11_Witness ==
    /\ Returned /\ arg.bits = 14 /\ arg.vref = REF_VOLT /\ arg.vout = FZero(0)
    /\ ret = 8192

\* vout lies within [-vref, vref]
InRange(vout, vref) == FGe(vout, FNeg(vref)) /\ FGe(vref, vout)

\* C12: the converter is monotonic in the voltage.  For bits in 1 .. 14, a
\* finite vref > 0 and v1 < v2 both within [-vref, vref], the code of v1 is at
\* most the code of v2 (v1 being the voltage of the call, v2 any other one).
C12_Monotonic ==
    Returned /\ ValidArgs /\ InRange(arg.vout, arg.vref) =>
      \A v2 \in ArgFloats :
        InRange(v2, arg.vref) /\ FLt(arg.vout, v2) =>
          \A c2 \in dacBipolarVoltageToCode(arg.bits, arg.vref, v2) : ret <= c2
\* a call whose code is strictly below the code of a greater in-range voltage
C12_Witness ==
    /\ Returned /\ ValidArgs /\ arg.bits = 14 /\ arg.vref = REF_VOLT
    /\ arg.vout = Fin(0, 10485760, 0 - 22)
    /\ \E v2 \in ArgFloats :
         /\ InRange(v2, arg.vref) /\ FLt(arg.vout, v2)
         /\ \A c2 \in dacBipolarVoltageToCode(arg.bits, arg.vref, v2) : ret < c2

\* C13: a voltage beyond the reference magnitude is clamped to it.  Whatever
\* bits and vref, a vout above |vref| is converted to what vout = |vref| is
\* converted to, and a vout below -|vref| to what vout = -|vref| is.
C13_Clamped ==
    Returned =>
      /\ FGt(arg.vout, absVref(arg.vref)) =>
           ret \in dacBipolarVoltageToCode(arg.bits, arg.vref, absVref(arg.vref))
      /\ FLt(arg.vout, FNeg(absVref(arg.vref))) =>
           ret \in dacBipolarVoltageToCode(arg.bits, arg.vref,
                                           FNeg(absVref(arg.vref)))
\* 5 V and +infinity at a 4.096 V reference both returned the top code
C13_Witness ==
    /\ Returned /\ arg.bits = 14 /\ arg.vref = REF_VOLT /\ ret = 16383
    /\ arg.vout \in {Fin(0, 10485760, 0 - 21), FInf(0)}

\* the call of the end-to-end scenario: bits = 14, vref = 4.096, vout = -1.0
Scenario ==
    Returned /\ arg.bits = 14 /\ arg.vref = REF_VOLT /\ arg.vout = FNeg(One)

\* C14 as stated: the scenario's call returns 6208.
C14_Returns6208 == Scenario => ret = 6208
\* C14 as amended: the scenario's call returns 6192, which is
\* (-1.0 / 4.096) * 8192 + 8192 rounded.
C14_Returns6192 == Scenario => ret = 6192
\* the scenario's call has returned
C14_Witness == Scenario /\ ret = 6192

\* C15 as stated: with a negative reference the converter returns 0.
C15_NegativeRefZero == Returned /\ FLt(arg.vref, FZero(0)) => ret = 0
\* C15 as amended: a negative reference is replaced by its magnitude, so the
\* call returns what the same call with -vref returns.
C15_NegativeRefMagnitude ==
    Returned /\ FLt(arg.vref, FZero(0)) =>
      ret \in dacBipolarVoltageToCode(arg.bits, FNeg(arg.vref), arg.vout)
\* a call with vref = -4.096 and vout = -1.0 returned a non-zero code
C15_Witness ==
    /\ Returned /\ arg.bits = 14 /\ arg.vref = FNeg(REF_VOLT)
    /\ arg.vout = FNeg(One) /\ ret = 6192

\* C16: the converter returns 0 when vref is zero (of either sign) or bits is
\* 0, whatever the other arguments, a NaN or an infinity among them.
C16_Degenerate ==
    Returned /\ (arg.bits = 0 \/ FEq(arg.vref, FZero(0))) => ret = 0
\* a zero reference with a non-zero resolution and a NaN voltage returned 0
C16_Witness ==
    /\ Returned /\ arg.bits = 14 /\ arg.vref = FZero(1) /\ arg.vout = FNaN
    /\ ret = 0

\* C17: a call with bits above 14 returns what the call with bits = 14 and the
\* same vref and vout returns.
C17_BitsClamped ==
    Returned /\ arg.bits > 14 =>
      ret \in dacBipolarVoltageToCode(14, arg.vref, arg.vout)
\* a call with bits = 15 returned a code that needs all 14 bits and no more
C17_Witness ==
    /\ Returned /\ arg.bits = 15 /\ arg.vref = REF_VOLT
    /\ arg.vout = Fin(0, 8589725, 0 - 21) /\ ret \in 2^13 + 1 .. 2^14 - 1

\* buildLUT has returned (in a build that calls it)
SineBuilt ==
    /\ "SINE_WAVE" \in modes
    /\ pc \notin {"setup_pinMode", "setup_csHigh", "buildLUT_call", "buildLUT_for"}

\* C18: the table built for N = 16 and full scale 16383 has Table[0] = 8192
\* and Table[N/4] = 16383, and each of its entries is in 0 .. 16383.
C18_Table ==
    /\ SineBuilt => sineLUT[0] = 8192 /\ sineLUT[TABLE_SIZE \div 4] = DAC_14_BIT
    /\ \A k \in 0 .. TABLE_SIZE - 1 : sineLUT[k] \in 0 .. DAC_14_BIT
\* the peak entry is about to be sent
C18_Witness ==
    /\ SineBuilt /\ pc = "sine_xfer" /\ tableCounter = TABLE_SIZE \div 4
    /\ sineLUT[tableCounter] = 16383

\* the codes buildLUT(TABLE_SIZE, DAC_14_BIT) computes for each entry
TableCodes == [k \in 0 .. TABLE_SIZE - 1 |-> LUTEntry(k, TABLE_SIZE, DAC_14_BIT)]

\* C19: in a build with the sine playback, when buildLUT returns, which is
\* before the select line is first written low and before any transfer, all
\* TABLE_SIZE passes of its loop have been made and every entry of the table
\* holds the code computed for it; and from then on no step changes the table
\* (the only steps that write it are the passes of buildLUT's loop).
C19_Inv ==
    "SINE_WAVE" \in modes =>
      /\ nXfer > 0 \/ lastEv = "low" => SineBuilt
      /\ SineBuilt => i = TABLE_SIZE
      /\ pc = "setup_spiBegin" =>
           \A k \in 0 .. TABLE_SIZE - 1 : sineLUT[k] \in TableCodes[k]
C19_Step == pc # "buildLUT_for" \/ SineBuilt' => sineLUT' = sineLUT
C19_BuiltOnce == []C19_Inv /\ [][C19_Step]_vars
\* the last entry of the table has been sent from the drive loop
C19_Witness ==
    /\ SineOnly /\ pc = "sine_high" /\ tableCounter = TABLE_SIZE - 1
    /\ lastWord = sineLUT[TABLE_SIZE - 1] /\ lastWord = 5057

\* C20: the single-value block calls the converter with bits = 255 (16383 in
\* a uint8_t); the code it then sends is the 14-bit code of outputThisVoltage
\* at 4.096 V, and is not the code of any smaller width.
C20_Width ==
    "SINGLE_VALUE" \in modes /\ pc \in {"single_low", "single_xfer", "single_high"} =>
      /\ arg.bits = 255 /\ arg.vref = REF_VOLT /\ arg.vout = outputThisVoltage
      /\ dacCode \in dacBipolarVoltageToCode(14, REF_VOLT, outputThisVoltage)
      /\ \A b \in 0 .. 13 :
           dacCode \notin dacBipolarVoltageToCode(b, REF_VOLT, outputThisVoltage)
      /\ pc = "single_high" => lastWord = dacCode
\* the code of the shipped -1.0 V has been sent
C20_Witness ==
    /\ "SINGLE_VALUE" \in modes /\ pc = "single_high" /\ arg.bits = 255
    /\ outputThisVoltage = FNeg(One) /\ lastWord = 6192
=============================================================================
